---- MODULE Spec2Model ----
(***************************************************************************)
(* Cart-to-order concurrency core of the e-commerce backend:                *)
(*   - the Redis lock protocol of addToCart / updateCartItem                *)
(*     (src/src/config/stripe.js, cart controller part),                    *)
(*   - the cart document and its methods (src/src/models/Cart.js),          *)
(*   - order creation, cancellation, status updates and payment webhooks    *)
(*     (src/src/controllers/order.controller.js, src/unnamed/part_008,      *)
(*      src/unnamed/part_012, src/src/models/Order.js, Product.js).         *)
(* Every await of a handler is a separate step, so that requests interleave *)
(* exactly where the event loop lets them.                                  *)
(***************************************************************************)
EXTENDS Integers, Naturals, Sequences, FiniteSets, TLC

(* ------------------------------ bounds --------------------------------- *)
\* users owning a cart
MaxUsers == 1
\* products of the catalog
MaxProducts == 2
\* variants of a product (0 stands for "no variantId given")
MaxVariants == 1
\* largest initial stock of a product
MaxStock == 2
\* largest quantity a request asks for
MaxQty == 1
\* cap of the quantities a cart holds, those of the adds in flight included
MaxCartQty == 2
\* concurrent cart requests (slots are reused)
MaxCartReq == 2
\* clock advances in one behaviour
MaxTicks == 1
\* order requests of one behaviour (each slot runs one operation)
MaxReq == 2
\* variants a cart request may name
MaxLockVariants == 0
\* lines of a cart at checkout, and the largest quantity of such a line
MaxLines == 2
MaxLineQty == 2
\* order life cycle: entries of a statusHistory, and orders created
MaxHistory == 3
MaxLifeOrders == 1
\* cart methods in sequence: prices, quantity of a call, quantities of a cart
MaxPrice == 2
MaxOpQty == 2
MaxOpsCartQty == 4
MaxCouponQty == 5

(* ------------------------- program constants --------------------------- *)
\* redis.set(lockKey, lockValue, 'PX', 5000, 'NX')
LockTTL == 5000

Users == 1..MaxUsers
Products == 1..MaxProducts
NoVariant == 0
Variants == 0..MaxVariants
CReq == 1..MaxCartReq
Req == 1..MaxReq

VARIABLES
  now,      \* Date.now(), in milliseconds since the start
  lock,     \* Redis: key (user, product) -> the lock entry
  creq,     \* the cart requests in flight, one record per slot
  carts,    \* Cart collection: user -> [exists, items]
  stock,    \* Product collection: product -> stock
  orders,   \* Order collection, in insertion order
  req,      \* the order requests, one record per slot
  origStock, \* history: the stock of each product in the initial state
  delta,     \* history: product -> released minus reserved, successful calls
  writers,   \* history: product -> the requests that wrote its stock
  products,  \* Product collection: product -> "missing", "inactive", "active"
  lastCall   \* history: the last cart method call and the lines before it

vars == <<now, lock, creq, carts, stock, orders, req, origStock, delta, writers,
          products, lastCall>>
lockVars == <<now, lock, creq>>
orderVars == <<stock, orders, req, origStock, delta, writers>>
auxVars == <<products, lastCall>>

(* ------------------------------ Cart.js -------------------------------- *)
\* the price of product p in the catalog (salePrice or price), in cents
ProductPrice(p) == 1000 * p

LineAt(p, v, q, price) ==
  [product |-> p, variant |-> v, quantity |-> q, price |-> price]

\* a line added at the catalog price
Line(p, v, q) == LineAt(p, v, q, ProductPrice(p))

\* the predicate of findIndex / filter in addItem, updateItem, removeItem
MatchItem(item, productId, variantId) ==
  /\ item.product = productId
  /\ (variantId = NoVariant \/ item.variant = variantId)

\* Array.prototype.findIndex: the first matching index, 0 when there is none
FindIndex(items, productId, variantId) ==
  LET hits == {i \in 1..Len(items) : MatchItem(items[i], productId, variantId)}
  IN IF hits = {} THEN 0 ELSE CHOOSE i \in hits : \A j \in hits : i <= j

addItem(items, productId, quantity, price, variantId) ==
  LET i == FindIndex(items, productId, variantId)
  IN IF i > 0
       THEN [items EXCEPT ![i].quantity = @ + quantity, ![i].price = price]
       ELSE Append(items, LineAt(productId, variantId, quantity, price))

RemoveAt(items, i) ==
  [j \in 1..(Len(items) - 1) |-> IF j < i THEN items[j] ELSE items[j + 1]]

\* updateItem throws 'Item not found in cart' when no line matches
updateItemFound(items, productId, variantId) ==
  FindIndex(items, productId, variantId) > 0

\* mutant: updateItem that adds the quantity to the line's quantity
updateItemAdditive(items, productId, quantity, variantId) ==
  LET i == FindIndex(items, productId, variantId)
  IN IF quantity <= 0
       THEN RemoveAt(items, i)
       ELSE [items EXCEPT ![i].quantity = @ + quantity]

updateItem(items, productId, quantity, variantId) ==
  LET i == FindIndex(items, productId, variantId)
  IN IF quantity <= 0
       THEN RemoveAt(items, i)
       ELSE [items EXCEPT ![i].quantity = quantity]

RECURSIVE Filter(_, _, _)
\* this.items.filter(item => !(match)), in the order of the lines
Filter(items, productId, variantId) ==
  IF items = <<>> THEN <<>>
  ELSE IF MatchItem(Head(items), productId, variantId)
         THEN Filter(Tail(items), productId, variantId)
         ELSE <<Head(items)>> \o Filter(Tail(items), productId, variantId)

\* mutant: removeItem that removes the first matching line only
removeFirstMatch(items, productId, variantId) ==
  IF FindIndex(items, productId, variantId) = 0 THEN items
  ELSE RemoveAt(items, FindIndex(items, productId, variantId))

removeItem(items, productId, variantId) == Filter(items, productId, variantId)

\* mutant: a clearCart that keeps the lines
clearCartKept(items) == items

clearCart(items) == <<>>

\* mutant: a total that counts each line once, whatever its quantity
TotalAmountPerLine(items) ==
  IF items = <<>> THEN 0 ELSE Len(items) * Head(items).price

RECURSIVE SumQty(_)
\* pre('save'): items.reduce((sum, item) => sum + item.quantity, 0)
SumQty(items) ==
  IF items = <<>> THEN 0 ELSE Head(items).quantity + SumQty(Tail(items))

RECURSIVE SumAmount(_)
SumAmount(items) ==
  IF items = <<>> THEN 0
  ELSE Head(items).price * Head(items).quantity + SumAmount(Tail(items))

\* pre('save'): items.reduce((sum, item) => sum + item.price * item.quantity, 0)
TotalAmount(items) == SumAmount(items)

NoCart ==
  [exists |-> FALSE, items |-> <<>>, totalItems |-> 0, totalAmount |-> 0]

\* a cart document as save() stores it: the pre('save') hook has set the totals
CartDoc(items) ==
  [exists |-> TRUE, items |-> items, totalItems |-> SumQty(items),
   totalAmount |-> TotalAmount(items)]

\* no cart method was called yet
NoCall ==
  [op |-> "none", user |-> 0, product |-> 0, variant |-> NoVariant,
   quantity |-> 0, price |-> 0, before |-> <<>>, error |-> FALSE]

\* the call op(p, q, price, v) on the cart of u whose lines were `before`
Call(op, u, p, v, q, price, before, error) ==
  [op |-> op, user |-> u, product |-> p, variant |-> v, quantity |-> q,
   price |-> price, before |-> before, error |-> error]

(* ------------------------ the Redis lock key --------------------------- *)
NoLock == [held |-> FALSE, val |-> 0, exp |-> 0, owner |-> 0]
Keys == Users \X Products

\* redis.get(lockKey): the value of an unexpired key, null otherwise
NoValue == [present |-> FALSE, val |-> 0]
RedisGet(k) ==
  IF lock[k].held THEN [present |-> TRUE, val |-> lock[k].val] ELSE NoValue

\* mutant: SET without NX overwrites a key that is present
SetWithoutNX(k) == TRUE

\* SET key value PX ttl NX succeeds exactly when the key is absent
SetNXSucceeds(k) == ~lock[k].held

\* mutant: a finally block that never deletes the key
ShouldDeleteNever(currentLock, lockValue) == FALSE

\* the finally block: if (currentLock === lockValue) await redis.del(lockKey)
ShouldDelete(currentLock, lockValue) ==
  currentLock.present /\ currentLock.val = lockValue

(* --------------------------- cart requests ----------------------------- *)
IdleCartReq ==
  [op |-> "none", pc |-> "idle", userId |-> 1, productId |-> 1,
   variantId |-> NoVariant, quantity |-> 0, lockValue |-> 0,
   lockAcquired |-> FALSE, currentLock |-> NoValue, cart |-> NoCart,
   status |-> 0]

lockKey(r) == <<creq[r].userId, creq[r].productId>>

\* the quantities user u's cart holds or is about to receive
RECURSIVE PendingAdds(_, _)
PendingAdds(u, rs) ==
  IF rs = {} THEN 0
  ELSE LET r == CHOOSE x \in rs : TRUE
       IN (IF creq[r].op = "add" /\ creq[r].userId = u /\ creq[r].pc # "idle"
             THEN creq[r].quantity ELSE 0) + PendingAdds(u, rs \ {r})

CartQty(u) == SumQty(carts[u].items) + PendingAdds(u, CReq)

\* a request is between a successful acquire and its finally block
InMutation(r) == creq[r].pc \in {"load", "mutate"}

\* the request enters its finally block with the response `status` decided;
\* the locals the finally block does not read are dropped
Finally(c, status) ==
  [IdleCartReq EXCEPT !.op = c.op, !.pc = "get", !.userId = c.userId,
     !.productId = c.productId, !.lockValue = c.lockValue,
     !.lockAcquired = c.lockAcquired, !.status = status]

\* addToCart, lines 83-103 / updateCartItem, lines 141-158: the product is
\* read and checked, then lockValue = Date.now().toString()
CartStart(r, op, u, p, v, q) ==
  /\ creq[r].pc = "idle"
  /\ op = "add" => q >= 1 /\ CartQty(u) + q <= MaxCartQty
  /\ IF products[p] # "active" \/ stock[p] < q
       THEN creq' = creq  \* ApiError(404 / 400), nothing was touched
       ELSE creq' = [creq EXCEPT ![r] =
                       [IdleCartReq EXCEPT !.op = op, !.pc = "acquire",
                          !.userId = u, !.productId = p, !.variantId = v,
                          !.quantity = q, !.lockValue = now]]
  /\ UNCHANGED <<now, lock, carts, orderVars, auxVars>>

\* redis.set(lockKey, lockValue, 'PX', 5000, 'NX'); a denied request throws
\* ApiError(409) and runs the finally block
CartAcquire(r) ==
  /\ creq[r].pc = "acquire"
  /\ IF SetNXSucceeds(lockKey(r))
       THEN /\ lock' = [lock EXCEPT ![lockKey(r)] =
                          [held |-> TRUE, val |-> creq[r].lockValue,
                           exp |-> now + LockTTL, owner |-> r]]
            /\ creq' = [creq EXCEPT ![r].pc = "load",
                                    ![r].lockAcquired = TRUE]
       ELSE /\ lock' = lock
            /\ creq' = [creq EXCEPT ![r] = Finally(creq[r], 409)]
  /\ UNCHANGED <<now, carts, orderVars, auxVars>>

\* addToCart: Cart.getOrCreateCart(userId); updateCartItem: Cart.findOne,
\* 404 when the user has no cart
CartLoad(r) ==
  /\ creq[r].pc = "load"
  /\ IF creq[r].op = "add"
       THEN /\ carts' = [carts EXCEPT ![creq[r].userId] =
                           CartDoc(carts[creq[r].userId].items)]
            /\ creq' = [creq EXCEPT ![r].pc = "mutate",
                          ![r].cart = CartDoc(carts[creq[r].userId].items)]
       ELSE /\ carts' = carts
            /\ IF carts[creq[r].userId].exists
                 THEN creq' = [creq EXCEPT ![r].pc = "mutate",
                                 ![r].cart = carts[creq[r].userId]]
                 ELSE creq' = [creq EXCEPT ![r] = Finally(creq[r], 404)]
  /\ UNCHANGED <<now, lock, orderVars, auxVars>>

\* cart.addItem(...) / cart.updateItem(...), each ending in this.save(); a
\* rejected save (here: of a cart that would outgrow MaxCartQty) and the
\* throw of updateItem leave the try block with the error
CartMutate(r) ==
  /\ creq[r].pc = "mutate"
  /\ LET c == creq[r]
         items == c.cart.items
     IN IF c.op = "add"
          THEN IF SumQty(items) + c.quantity <= MaxCartQty
                 THEN /\ carts' = [carts EXCEPT ![c.userId] =
                          CartDoc(addItem(items, c.productId, c.quantity,
                                          ProductPrice(c.productId), c.variantId))]
                      /\ creq' = [creq EXCEPT ![r] = Finally(c, 200)]
                 ELSE /\ carts' = carts
                      /\ creq' = [creq EXCEPT ![r] = Finally(c, 500)]
          ELSE IF updateItemFound(items, c.productId, c.variantId)
                 THEN /\ carts' = [carts EXCEPT ![c.userId] =
                          CartDoc(updateItem(items, c.productId, c.quantity,
                                             c.variantId))]
                      /\ creq' = [creq EXCEPT ![r] = Finally(c, 200)]
                 ELSE /\ carts' = carts
                      /\ creq' = [creq EXCEPT ![r] = Finally(c, 500)]
  /\ UNCHANGED <<now, lock, orderVars, auxVars>>

\* finally: const currentLock = await redis.get(lockKey)
CartReleaseGet(r) ==
  /\ creq[r].pc = "get"
  /\ creq' = [creq EXCEPT ![r].pc = "del",
                          ![r].currentLock = RedisGet(lockKey(r))]
  /\ UNCHANGED <<now, lock, carts, orderVars, auxVars>>

\* finally: if (currentLock === lockValue) await redis.del(lockKey)
CartReleaseDel(r) ==
  /\ creq[r].pc = "del"
  /\ IF ShouldDelete(creq[r].currentLock, creq[r].lockValue)
       THEN lock' = [lock EXCEPT ![lockKey(r)] = NoLock]
       ELSE lock' = lock
  /\ creq' = [creq EXCEPT ![r] = IdleCartReq]
  /\ UNCHANGED <<now, carts, orderVars, auxVars>>

\* removeFromCart, lines 187-195 / clearCart, lines 206-212: Cart.findOne,
\* 404 when the user has no cart; no lock is taken
CartFind(r, op, u, p, v) ==
  /\ creq[r].pc = "idle"
  /\ IF carts[u].exists
       THEN creq' = [creq EXCEPT ![r] =
              [IdleCartReq EXCEPT !.op = op, !.pc = "write", !.userId = u,
                 !.productId = IF op = "remove" THEN p ELSE 1,
                 !.variantId = IF op = "remove" THEN v ELSE NoVariant,
                 !.cart = carts[u]]]
       ELSE creq' = creq
  /\ UNCHANGED <<now, lock, carts, orderVars, auxVars>>

\* await cart.removeItem(productId, variantId) / await cart.clearCart()
CartWrite(r) ==
  /\ creq[r].pc = "write"
  /\ LET c == creq[r]
     IN carts' = [carts EXCEPT ![c.userId] =
          CartDoc(IF c.op = "remove"
                    THEN removeItem(c.cart.items, c.productId, c.variantId)
                    ELSE clearCart(c.cart.items))]
  /\ creq' = [creq EXCEPT ![r] = IdleCartReq]
  /\ UNCHANGED <<now, lock, orderVars, auxVars>>

\* time passes: by a millisecond, or by the lock's time to live; Redis
\* drops the keys whose PX has run out
TicksUsed(t) == (t \div LockTTL) + (t % LockTTL)

Tick(d) ==
  /\ TicksUsed(now + d) <= MaxTicks
  /\ now' = now + d
  /\ lock' = [k \in Keys |->
                IF lock[k].held /\ lock[k].exp <= now + d
                  THEN NoLock ELSE lock[k]]
  /\ UNCHANGED <<creq, carts, orderVars, auxVars>>

NextCart ==
  \/ \E r \in CReq, op \in {"add", "update"}, u \in Users, p \in Products,
        v \in 0..MaxLockVariants, q \in 0..MaxQty : CartStart(r, op, u, p, v, q)
  \/ \E r \in CReq : CartAcquire(r)
  \/ \E r \in CReq : CartLoad(r)
  \/ \E r \in CReq : CartMutate(r)
  \/ \E r \in CReq : CartReleaseGet(r)
  \/ \E r \in CReq : CartReleaseDel(r)
  \/ \E r \in CReq, op \in {"remove", "clear"}, u \in Users, p \in Products,
        v \in 0..MaxLockVariants : CartFind(r, op, u, p, v)
  \/ \E r \in CReq : CartWrite(r)
  \/ \E d \in {1, LockTTL} : Tick(d)

IdleReq ==
  [op |-> "none", pc |-> "idle", user |-> 0, order |-> 0, arg |-> "none",
   items |-> <<>>, pstock |-> [p \in Products |-> 0], i |-> 0,
   errors |-> <<>>, loaded |-> "none", hlen |-> 0, count |-> 0,
   shippingMethod |-> "none", couponCode |-> "", subtotal |-> 0,
   discount |-> 0, controller |-> "none", emitted |-> "none",
   after |-> FALSE, result |-> "none"]

InitCart ==
  /\ now = 0
  /\ lock = [k \in Keys |-> NoLock]
  /\ creq = [r \in CReq |-> IdleCartReq]
  /\ carts = [u \in Users |-> NoCart]
  /\ stock = [p \in Products |-> MaxStock]
  /\ origStock = stock
  /\ delta = [p \in Products |-> 0]
  /\ writers = [p \in Products |-> {}]
  /\ orders = <<>>
  /\ req = [r \in Req |-> IdleReq]
  /\ products = [p \in Products |-> "active"]
  /\ lastCall = NoCall

SpecCart == InitCart /\ [][NextCart]_vars

\* the handlers that take the lock, addToCart and updateCartItem, on their
\* own (removeFromCart and clearCart read and write no key)
NextCartLive ==
  \/ \E r \in CReq, op \in {"add", "update"}, u \in Users, p \in Products,
        v \in 0..MaxLockVariants, q \in 0..MaxQty : CartStart(r, op, u, p, v, q)
  \/ \E r \in CReq : CartAcquire(r)
  \/ \E r \in CReq : CartLoad(r)
  \/ \E r \in CReq : CartMutate(r)
  \/ \E r \in CReq : CartReleaseGet(r)
  \/ \E r \in CReq : CartReleaseDel(r)
  \/ \E d \in {1, LockTTL} : Tick(d)

\* the handlers run to their end: an awaited call of a request that has
\* started is eventually answered; nothing is assumed of the clock
CartFairness ==
  \A r \in CReq :
    /\ WF_vars(CartAcquire(r)) /\ WF_vars(CartLoad(r)) /\ WF_vars(CartMutate(r))
    /\ WF_vars(CartReleaseGet(r)) /\ WF_vars(CartReleaseDel(r))

SpecCartLive == InitCart /\ [][NextCartLive]_vars /\ CartFairness

(* ----------------------- the cart methods in sequence ------------------- *)
\* mutant: a cartItemSchema whose quantity has no minimum
quantityUnchecked(items) == TRUE

\* cartItemSchema: quantity { min: 1 }, validated by this.save()
quantityValid(items) == \A i \in 1..Len(items) : items[i].quantity >= 1

\* cart.addItem(productId, quantity, price, variantId) on the user's cart;
\* this.save() rejects a line whose quantity is below 1
OpAddItem(u, p, q, price, v) ==
  /\ carts[u].exists
  /\ LET items == addItem(carts[u].items, p, q, price, v)
     IN /\ SumQty(items) <= MaxOpsCartQty
        /\ carts' = [carts EXCEPT ![u] =
                      IF quantityValid(items) THEN CartDoc(items) ELSE @]
        /\ lastCall' = Call("addItem", u, p, v, q, price, carts[u].items,
                            ~quantityValid(items))
  /\ UNCHANGED <<lockVars, orderVars, products>>

\* cart.updateItem(productId, quantity, variantId); it throws, before any
\* save, when no line matches
OpUpdateItem(u, p, q, v) ==
  /\ carts[u].exists
  /\ IF updateItemFound(carts[u].items, p, v)
       THEN LET items == updateItem(carts[u].items, p, q, v)
            IN /\ SumQty(items) <= MaxOpsCartQty
               /\ carts' = [carts EXCEPT ![u] = CartDoc(items)]
       ELSE carts' = carts
  /\ lastCall' = Call("updateItem", u, p, v, q, 0, carts[u].items,
                      ~updateItemFound(carts[u].items, p, v))
  /\ UNCHANGED <<lockVars, orderVars, products>>

\* cart.removeItem(productId, variantId)
OpRemoveItem(u, p, v) ==
  /\ carts[u].exists
  /\ carts' = [carts EXCEPT ![u] = CartDoc(removeItem(carts[u].items, p, v))]
  /\ lastCall' = Call("removeItem", u, p, v, 0, 0, carts[u].items, FALSE)
  /\ UNCHANGED <<lockVars, orderVars, products>>

\* cart.clearCart()
OpClearCart(u) ==
  /\ carts[u].exists
  /\ carts' = [carts EXCEPT ![u] = CartDoc(clearCart(carts[u].items))]
  /\ lastCall' = Call("clearCart", u, 0, NoVariant, 0, 0, carts[u].items, FALSE)
  /\ UNCHANGED <<lockVars, orderVars, products>>

\* getOrCreateCart has created the empty cart of every user
InitCartOps ==
  /\ now = 0
  /\ lock = [k \in Keys |-> NoLock]
  /\ creq = [r \in CReq |-> IdleCartReq]
  /\ carts = [u \in Users |-> CartDoc(<<>>)]
  /\ stock = [p \in Products |-> MaxStock]
  /\ origStock = stock
  /\ delta = [p \in Products |-> 0]
  /\ writers = [p \in Products |-> {}]
  /\ orders = <<>>
  /\ req = [r \in Req |-> IdleReq]
  /\ products = [p \in Products |-> "active"]
  /\ lastCall = NoCall

NextCartOps ==
  \/ \E u \in Users, p \in Products, q \in 0..MaxOpQty, price \in 1..MaxPrice,
        v \in Variants : OpAddItem(u, p, q, price, v)
  \/ \E u \in Users, p \in Products, q \in 0..MaxOpQty, v \in Variants :
        OpUpdateItem(u, p, q, v)
  \/ \E u \in Users, p \in Products, v \in Variants : OpRemoveItem(u, p, v)
  \/ \E u \in Users : OpClearCart(u)

SpecCartOps == InitCartOps /\ [][NextCartOps]_vars

(* ------------------------- Product.js, Order.js ------------------------- *)
\* mutant: reserveStock without its stock check
reserveStockUnchecked(localStock, quantity) == TRUE

\* mutant: releaseStock that saves the document without adding the quantity
releaseStockForgotten(localStock, quantity) == localStock

\* reserveStock: if (this.stock < quantity) throw new Error('Insufficient stock')
reserveStockAllowed(localStock, quantity) == localStock >= quantity

\* reserveStock: this.stock -= quantity
reserveStockValue(localStock, quantity) == localStock - quantity

\* releaseStock: this.stock += quantity
releaseStockValue(localStock, quantity) == localStock + quantity

Statuses ==
  {"pending", "confirmed", "processing", "shipped", "out_for_delivery",
   "delivered", "cancelled", "refunded"}

\* body('status').isIn([...]) of PUT /:id/status and PUT /orders/:id/status
RouteStatuses == Statuses \ {"out_for_delivery"}

\* mutant: an order can be cancelled in every status
canBeCancelledAlways(status) == TRUE

canBeCancelled(status) == status \in {"pending", "confirmed", "processing"}

canBeRefunded(status, payStatus) ==
  status = "delivered" /\ payStatus = "succeeded"

(* ------------------- createOrder: pricing, in cents --------------------- *)
ShippingMethods == {"standard", "express", "overnight", "pickup"}

\* const shippingCosts = { standard: 5.99, express: 12.99, ... }
shippingCosts ==
  [standard |-> 599, express |-> 1299, overnight |-> 2499, pickup |-> 0]

\* shippingCosts[shippingMethod] || 5.99: a cost of 0 is falsy
shippingCost(shippingMethod) ==
  IF shippingCosts[shippingMethod] = 0 THEN 599
  ELSE shippingCosts[shippingMethod]

\* const taxRate = 0.08, in percent
taxRate == 8

\* mutant: a tax of 8% of subtotal plus shipping
taxWithShipping(subtotal) == ((subtotal + 599) * taxRate) \div 100

\* const tax = subtotal * taxRate; exact for the prices of the catalog
taxOf(subtotal) == (subtotal * taxRate) \div 100

\* couponCode.toUpperCase(), on the codes a request sends
toUpperCase(code) == IF code = "save10" THEN "SAVE10" ELSE code

CouponCodes == {"", "save10", "FLAT20", "BOGUS"}

\* mockCoupons[couponCode.toUpperCase()], lines 206-225: 10 percent for
\* SAVE10, 20.00 for FLAT20, nothing for a code that is absent or unknown
discountOf(couponCode, subtotal) ==
  IF couponCode = "" THEN 0
  ELSE IF toUpperCase(couponCode) = "SAVE10" THEN (subtotal * 10) \div 100
  ELSE IF toUpperCase(couponCode) = "FLAT20" THEN 2000
  ELSE 0

\* applyCoupon, its mockCoupons: minAmount 50 for SAVE10, 100 for FLAT20
minAmount(code) == IF code = "SAVE10" THEN 5000 ELSE 10000

\* applyCoupon, after the cart is found: an unknown code and a total below
\* the minimum are refused; the discount is 10 percent or the fixed 20.00
applyCouponResult(couponCode, totalAmount) ==
  IF toUpperCase(couponCode) \notin {"SAVE10", "FLAT20"}
    THEN [result |-> "InvalidCoupon", discount |-> 0]
  ELSE IF totalAmount < minAmount(toUpperCase(couponCode))
    THEN [result |-> "BelowMinimum", discount |-> 0]
  ELSE [result |-> "ok",
        discount |-> IF toUpperCase(couponCode) = "SAVE10"
                       THEN (totalAmount * 10) \div 100 ELSE 2000]

\* lines 197-227 and the pricing block of new Order({...})
Pricing(subtotal, shippingMethod, couponCode) ==
  [subtotal |-> subtotal,
   shipping |-> shippingCost(shippingMethod),
   tax |-> taxOf(subtotal),
   discount |-> discountOf(couponCode, subtotal),
   total |-> subtotal + shippingCost(shippingMethod) + taxOf(subtotal)
               - discountOf(couponCode, subtotal)]

\* mutant: an order schema without `min: 0`
pricingUnchecked(pricing) == TRUE

\* the validators of orderSchema.pricing and payment.amount: min: 0
pricingValid(pricing) ==
  /\ pricing.subtotal >= 0 /\ pricing.shipping >= 0 /\ pricing.tax >= 0
  /\ pricing.discount >= 0 /\ pricing.total >= 0

\* new Order({...}) followed by addStatusHistory('pending', 'Order created')
NewOrder(u, items, method, shippingMethod, pricing) ==
  [user |-> u, items |-> items, status |-> "pending",
   statusHistory |-> <<"pending">>, payStatus |-> "pending",
   method |-> method, intent |-> FALSE, orderNumber |-> 0, refund |-> FALSE,
   shippingMethod |-> shippingMethod, pricing |-> pricing]

\* addStatusHistory(status) on a loaded document followed by save(): the
\* entry is pushed onto the stored array; status is written when the loaded
\* document's status differs from the new one
SaveStatus(doc, loadedStatus, status) ==
  [doc EXCEPT !.statusHistory = Append(@, status),
              !.status = IF status # loadedStatus THEN status ELSE @]

(* --------------------------- order requests ----------------------------- *)
\* the two controllers that export an updateOrderStatus
Controllers == {"order", "admin"}

\* global.socketHelpers.emitOrderStatusUpdate(order._id, order.status, ...):
\* the status the emitted event carries
emitOrderStatusUpdate(status) == status

Admin == 0

\* slots are taken in order; a slot runs one operation
CanStart(r) ==
  /\ req[r].pc = "idle"
  /\ \A r2 \in Req : r2 < r => req[r2].pc # "idle"

Done(c, result) ==
  [IdleReq EXCEPT !.op = c.op, !.pc = "done", !.user = c.user,
     !.order = c.order, !.arg = c.arg, !.after = c.after, !.result = result]

\* what populate('items.product') loads: one document per product
Populate(items) ==
  [p \in Products |->
     IF \E i \in 1..Len(items) : items[i].product = p THEN stock[p] ELSE 0]

\* cartSchema.methods.isEmpty
isEmpty(items) == Len(items) = 0

\* createOrder, lines 162-179: the cart is read with its products
CreateOrderStart(r, u, method, shippingMethod, couponCode) ==
  /\ CanStart(r)
  /\ IF ~carts[u].exists \/ isEmpty(carts[u].items)
       THEN req' = [req EXCEPT ![r] =
              [IdleReq EXCEPT !.op = "createOrder", !.pc = "done",
                 !.user = u, !.arg = method, !.result = "EmptyCart"]]
       ELSE req' = [req EXCEPT ![r] =
              [IdleReq EXCEPT !.op = "createOrder", !.pc = "validate",
                 !.user = u, !.arg = method, !.items = carts[u].items,
                 !.pstock = Populate(carts[u].items), !.i = 1,
                 !.shippingMethod = shippingMethod,
                 !.couponCode = couponCode,
                 !.subtotal = carts[u].totalAmount]]
  /\ UNCHANGED <<lockVars, auxVars, carts, stock, orders, origStock, delta, writers>>

\* mutant: validateItems without its isActive check
validateLineIgnoringActive(state, productStock, quantity) ==
  IF state = "missing" THEN "notFound"
  ELSE IF productStock < quantity THEN "insufficient"
  ELSE "none"

\* validateItems, the body of its loop: what is pushed for a line
validateLine(state, productStock, quantity) ==
  IF state = "missing" THEN "notFound"
  ELSE IF state = "inactive" THEN "unavailable"
  ELSE IF productStock < quantity THEN "insufficient"
  ELSE "none"

\* a message of validateItems: its kind and the product it names
Message(kind, p) == [kind |-> kind, product |-> p]

\* mutant: a createOrder that ignores the messages of validateItems
validationNeverFailed(errors) == FALSE

\* if (validationErrors.length > 0) throw new ApiError(400, ...)
validationFailed(errors) == Len(errors) > 0

\* cart.validateItems(): one Product.findById per line; lines 181-185
CreateOrderValidate(r) ==
  /\ req[r].op = "createOrder" /\ req[r].pc = "validate"
  /\ LET c == req[r]
         item == c.items[c.i]
         kind == validateLine(products[item.product], stock[item.product],
                              item.quantity)
         errors == IF kind = "none" THEN c.errors
                   ELSE Append(c.errors, Message(kind, item.product))
     IN req' = [req EXCEPT ![r] =
          IF c.i < Len(c.items)
            THEN [c EXCEPT !.i = c.i + 1, !.errors = errors]
            ELSE IF validationFailed(errors)
                   THEN [Done(c, "ValidationFailed") EXCEPT !.errors = errors]
                 ELSE [c EXCEPT !.pc = "save", !.i = 1, !.errors = <<>>]]
  /\ UNCHANGED <<lockVars, auxVars, carts, stock, orders, origStock, delta, writers>>

\* lines 187-272: the pricing is computed, the order is built, and
\* order.save() validates it (a validation error leaves the handler); then
\* the pre('save') hook of Order.js counts the orders created today (every
\* order of a behaviour is of the same day) ...
CreateOrderCount(r) ==
  /\ req[r].op = "createOrder" /\ req[r].pc = "save"
  /\ req' = [req EXCEPT ![r] =
       IF pricingValid(Pricing(req[r].subtotal, req[r].shippingMethod,
                               req[r].couponCode))
         THEN [req[r] EXCEPT !.pc = "insert", !.count = Len(orders),
                !.discount = discountOf(req[r].couponCode, req[r].subtotal)]
         ELSE [Done(req[r], "OrderInvalid") EXCEPT
                !.discount = discountOf(req[r].couponCode, req[r].subtotal)]]
  /\ UNCHANGED <<lockVars, auxVars, carts, stock, orders, origStock, delta, writers>>

\* the orderNumber 'ORD-<yyyymmdd>-<count + 1>', by its counter
OrderNumber(count) == count + 1

\* orderNumber: { unique: true }: the insert of a number that is taken fails
NumberTaken(n) == \E o \in 1..Len(orders) : orders[o].orderNumber = n

\* ... sets this.orderNumber, and the order is inserted with status
\* 'pending'; a duplicate key error leaves the handler
CreateOrderSave(r) ==
  /\ req[r].op = "createOrder" /\ req[r].pc = "insert"
  /\ IF NumberTaken(OrderNumber(req[r].count))
       THEN /\ orders' = orders
            /\ req' = [req EXCEPT ![r] = Done(req[r], "DuplicateOrderNumber")]
       ELSE /\ orders' = Append(orders,
                  [NewOrder(req[r].user, req[r].items, req[r].arg,
                            req[r].shippingMethod,
                            Pricing(req[r].subtotal, req[r].shippingMethod,
                                    req[r].couponCode))
                     EXCEPT !.orderNumber = OrderNumber(req[r].count)])
            /\ req' = [req EXCEPT ![r].pc = "reserve", ![r].count = 0,
                                  ![r].order = Len(orders) + 1]
  /\ UNCHANGED <<lockVars, auxVars, carts, stock, origStock, delta, writers>>

\* lines 274-277: await item.product.reserveStock(item.quantity), per line;
\* a throw leaves the handler at once
CreateOrderReserve(r) ==
  /\ req[r].op = "createOrder" /\ req[r].pc = "reserve"
  /\ LET c == req[r]
         item == c.items[c.i]
         p == item.product
     IN IF reserveStockAllowed(c.pstock[p], item.quantity)
          THEN LET v == reserveStockValue(c.pstock[p], item.quantity)
               IN /\ stock' = [stock EXCEPT ![p] = v]
                  /\ delta' = [delta EXCEPT ![p] = @ - item.quantity]
                  /\ writers' = [writers EXCEPT ![p] = @ \cup {r}]
                  /\ req' = [req EXCEPT ![r] =
                       IF c.i < Len(c.items)
                         THEN [c EXCEPT !.i = c.i + 1, !.pstock[p] = v]
                         ELSE [Done(c, "none") EXCEPT !.pc = "clear",
                                                      !.items = c.items]]
          ELSE /\ req' = [req EXCEPT ![r] = Done(c, "InsufficientStock")]
               /\ UNCHANGED <<stock, delta, writers>>
  /\ UNCHANGED <<lockVars, auxVars, carts, orders, origStock>>

\* lines 279-280: await cart.clearCart()
CreateOrderClear(r) ==
  /\ req[r].op = "createOrder" /\ req[r].pc = "clear"
  /\ carts' = [carts EXCEPT ![req[r].user] = CartDoc(clearCart(req[r].items))]
  /\ req' = [req EXCEPT ![r] =
       IF req[r].arg = "stripe" THEN [Done(req[r], "none") EXCEPT !.pc = "pay"]
       ELSE [Done(req[r], "ok") EXCEPT !.emitted = emitOrderStatusUpdate("pending")]]
  /\ UNCHANGED <<lockVars, auxVars, stock, orders, origStock, delta, writers>>

\* lines 282-292 and PaymentService.createPaymentIntent: the intent is
\* created and stored on the order, and the status is emitted (302-308), or
\* the creation fails and ApiError(500) leaves the handler
CreateOrderPay(r, succeeds) ==
  /\ req[r].op = "createOrder" /\ req[r].pc = "pay"
  /\ IF succeeds
       THEN /\ orders' = [orders EXCEPT ![req[r].order].intent = TRUE,
                            ![req[r].order].payStatus = "processing"]
            /\ req' = [req EXCEPT ![r] =
                 [Done(req[r], "ok") EXCEPT
                    !.emitted = emitOrderStatusUpdate("pending")]]
       ELSE /\ orders' = orders
            /\ req' = [req EXCEPT ![r] = Done(req[r], "PaymentSetupFailed")]
  /\ UNCHANGED <<lockVars, auxVars, carts, stock, origStock, delta, writers>>

\* the createOrder call that saved order o has returned
CreatorDone(o) ==
  \E c \in Req : req[c].op = "createOrder" /\ req[c].order = o
                   /\ req[c].pc = "done"

\* cancelOrder, lines 461-479: the order is read with its products
CancelOrderStart(r, o, who) ==
  /\ CanStart(r)
  /\ o \in 1..Len(orders)
  /\ LET c == [IdleReq EXCEPT !.op = "cancelOrder", !.user = who,
                 !.order = o, !.after = CreatorDone(o)]
     IN req' = [req EXCEPT ![r] =
          IF orders[o].user # who /\ who # Admin THEN Done(c, "Forbidden")
          ELSE IF ~canBeCancelled(orders[o].status)
                 THEN Done(c, "InvalidTransition")
          ELSE [c EXCEPT !.pc = "release", !.items = orders[o].items,
                  !.pstock = Populate(orders[o].items), !.i = 1,
                  !.loaded = orders[o].status,
                  !.hlen = Len(orders[o].statusHistory)]]
  /\ UNCHANGED <<lockVars, auxVars, carts, stock, orders, origStock, delta, writers>>

\* lines 481-484: await item.product.releaseStock(item.quantity), per line
CancelOrderRelease(r) ==
  /\ req[r].op = "cancelOrder" /\ req[r].pc = "release"
  /\ LET c == req[r]
         item == c.items[c.i]
         p == item.product
         v == releaseStockValue(c.pstock[p], item.quantity)
     IN /\ stock' = [stock EXCEPT ![p] = v]
        /\ delta' = [delta EXCEPT ![p] = @ + item.quantity]
        /\ writers' = [writers EXCEPT ![p] = @ \cup {r}]
        /\ req' = [req EXCEPT ![r] =
             IF c.i < Len(c.items)
               THEN [c EXCEPT !.i = c.i + 1, !.pstock[p] = v]
               ELSE [Done(c, "none") EXCEPT !.pc = "save",
                       !.loaded = c.loaded, !.hlen = c.hlen]]
  /\ UNCHANGED <<lockVars, auxVars, carts, orders, origStock>>

\* lines 486-498: addStatusHistory('cancelled', ...), save, and the emission
\* of the status of the saved document
CancelOrderSave(r) ==
  /\ req[r].op = "cancelOrder" /\ req[r].pc = "save"
  /\ orders' = [orders EXCEPT ![req[r].order] =
                  SaveStatus(@, req[r].loaded, "cancelled")]
  /\ req' = [req EXCEPT ![r] =
       [Done(req[r], "ok") EXCEPT !.emitted = emitOrderStatusUpdate("cancelled")]]
  /\ UNCHANGED <<lockVars, auxVars, carts, stock, origStock, delta, writers>>

\* updateOrderStatus of the order controller and of the admin controller:
\* the order is read ...
UpdateOrderStatusStart(r, o, status, controller) ==
  /\ CanStart(r)
  /\ o \in 1..Len(orders)
  /\ req' = [req EXCEPT ![r] =
       [IdleReq EXCEPT !.op = "updateOrderStatus", !.pc = "save",
          !.user = Admin, !.order = o, !.arg = status,
          !.controller = controller,
          !.loaded = orders[o].status,
          !.hlen = Len(orders[o].statusHistory)]]
  /\ UNCHANGED <<lockVars, auxVars, carts, stock, orders, origStock, delta, writers>>

\* ... and order.addStatusHistory(status, note, userId) is saved, whatever
\* the status of the order is; the order controller then emits the status
\* (lines 662-669), the admin controller emits nothing
UpdateOrderStatusSave(r) ==
  /\ req[r].op = "updateOrderStatus" /\ req[r].pc = "save"
  /\ orders' = [orders EXCEPT ![req[r].order] =
                  SaveStatus(@, req[r].loaded, req[r].arg)]
  /\ req' = [req EXCEPT ![r] =
       IF req[r].controller = "order"
         THEN [Done(req[r], "ok") EXCEPT
                 !.emitted = emitOrderStatusUpdate(req[r].arg)]
         ELSE Done(req[r], "ok")]
  /\ UNCHANGED <<lockVars, auxVars, carts, stock, origStock, delta, writers>>

\* processRefund of the admin controller: read, addStatusHistory('refunded')
AdminRefundStart(r, o) ==
  /\ CanStart(r)
  /\ o \in 1..Len(orders)
  /\ req' = [req EXCEPT ![r] =
       [IdleReq EXCEPT !.op = "processRefund", !.pc = "save",
          !.user = Admin, !.order = o, !.arg = "refunded",
          !.loaded = orders[o].status,
          !.hlen = Len(orders[o].statusHistory)]]
  /\ UNCHANGED <<lockVars, auxVars, carts, stock, orders, origStock, delta, writers>>

AdminRefundSave(r) ==
  /\ req[r].op = "processRefund" /\ req[r].pc = "save"
  /\ orders' = [orders EXCEPT ![req[r].order] =
                  [SaveStatus(@, req[r].loaded, "refunded")
                     EXCEPT !.refund = TRUE]]
  /\ req' = [req EXCEPT ![r] = Done(req[r], "ok")]
  /\ UNCHANGED <<lockVars, auxVars, carts, stock, origStock, delta, writers>>

\* requestRefund, lines 506-524: the order is read; only its owner may ask,
\* and only when canBeRefunded()
RequestRefundStart(r, o, who) ==
  /\ CanStart(r)
  /\ o \in 1..Len(orders)
  /\ LET c == [IdleReq EXCEPT !.op = "requestRefund", !.user = who,
                 !.order = o, !.arg = "refunded"]
     IN req' = [req EXCEPT ![r] =
          IF orders[o].user # who THEN Done(c, "Forbidden")
          ELSE IF ~canBeRefunded(orders[o].status, orders[o].payStatus)
                 THEN Done(c, "NotEligible")
          ELSE [c EXCEPT !.pc = "refund", !.loaded = orders[o].status,
                  !.hlen = Len(orders[o].statusHistory)]]
  /\ UNCHANGED <<lockVars, auxVars, carts, stock, orders, origStock, delta, writers>>

\* lines 528-543, await PaymentService.processRefund(...): processRefund
\* reads the order and, when it is paid, evaluates stripe.refunds.create;
\* the payment service binds no `stripe`, so the evaluation throws, and so
\* does the unpaid branch; processRefund rethrows ApiError(500), and the
\* catch of requestRefund answers 500 before anything is written
RequestRefundProcess(r) ==
  /\ req[r].op = "requestRefund" /\ req[r].pc = "refund"
  /\ req' = [req EXCEPT ![r] = Done(req[r], "RefundFailed")]
  /\ UNCHANGED <<lockVars, auxVars, carts, stock, orders, origStock, delta, writers>>

\* PaymentService.handleWebhook: the event of a payment intent
WebhookEvents ==
  {"payment_intent.succeeded", "payment_intent.payment_failed",
   "payment_intent.canceled"}

\* the payment status and the order status each handler writes
WebhookPayStatus(event) ==
  CASE event = "payment_intent.succeeded" -> "succeeded"
    [] event = "payment_intent.payment_failed" -> "failed"
    [] OTHER -> "cancelled"

WebhookStatus(event) ==
  IF event = "payment_intent.succeeded" THEN "confirmed" ELSE "cancelled"

\* Order.findOne({'payment.paymentIntentId': paymentIntent.id}) finds order o
IntentMatches(o) == o \in 1..Len(orders) /\ orders[o].intent

\* what a handler's own catch logs (logger.error) and drops
Logged(kind) == <<Message(kind, 0)>>

\* handlePaymentSuccess / handlePaymentFailure / handlePaymentCancellation:
\* the order of the payment intent is looked up; when there is none the
\* handler throws into its own catch, which logs, and handleWebhook returns
\* { received: true }
WebhookStart(r, o, event) ==
  /\ CanStart(r)
  /\ req' = [req EXCEPT ![r] =
       IF IntentMatches(o)
         THEN [IdleReq EXCEPT !.op = event, !.pc = "save", !.order = o,
                 !.arg = WebhookStatus(event), !.loaded = orders[o].status,
                 !.hlen = Len(orders[o].statusHistory)]
         ELSE [IdleReq EXCEPT !.op = event, !.pc = "done",
                 !.arg = WebhookStatus(event),
                 !.errors = Logged("orderNotFound"), !.result = "ok"]]
  /\ UNCHANGED <<lockVars, auxVars, carts, stock, orders, origStock, delta, writers>>

\* what follows order.save() in a handler: `require('../server.js')` in an
\* ES module throws a ReferenceError into the handler's catch (succeeded and
\* payment_failed); handlePaymentCancellation has no emission at all
WebhookAfterSave(event) ==
  IF event = "payment_intent.canceled" THEN <<>> ELSE Logged("requireNotDefined")

\* order.payment.status = ...; order.addStatusHistory(...); await order.save()
\* No handler touches the stock, none emits, and handleWebhook returns
\* { received: true }.
WebhookSave(r) ==
  /\ req[r].op \in WebhookEvents /\ req[r].pc = "save"
  /\ orders' = [orders EXCEPT ![req[r].order] =
       [SaveStatus(@, req[r].loaded, req[r].arg)
          EXCEPT !.payStatus = WebhookPayStatus(req[r].op)]]
  /\ req' = [req EXCEPT ![r] =
       [Done(req[r], "ok") EXCEPT !.errors = WebhookAfterSave(req[r].op)]]
  /\ UNCHANGED <<lockVars, auxVars, carts, stock, origStock, delta, writers>>

(* --------------------------- the order system --------------------------- *)
\* a cart that addItem can build: a line is pushed only when no earlier line
\* matches its (product, variant)
ReachableCart(items) ==
  \A i, j \in 1..Len(items) :
    i < j => ~MatchItem(items[i], items[j].product, items[j].variant)

Lines ==
  {Line(p, v, q) : p \in Products, v \in Variants, q \in 1..MaxLineQty}

CheckoutCarts ==
  {items \in UNION {[1..n -> Lines] : n \in 1..MaxLines} : ReachableCart(items)}

Init ==
  /\ now = 0
  /\ lock = [k \in Keys |-> NoLock]
  /\ creq = [r \in CReq |-> IdleCartReq]
  /\ carts \in [Users -> {CartDoc(items) : items \in CheckoutCarts}]
  /\ stock \in [Products -> 1..MaxStock]
  /\ origStock = stock
  /\ delta = [p \in Products |-> 0]
  /\ writers = [p \in Products |-> {}]
  /\ orders = <<>>
  /\ req = [r \in Req |-> IdleReq]
  /\ products = [p \in Products |-> "active"]
  /\ lastCall = NoCall

Next ==
  \/ \E r \in Req, u \in Users, m \in {"stripe", "cash_on_delivery"} :
       CreateOrderStart(r, u, m, "standard", "")
  \/ \E r \in Req : CreateOrderValidate(r)
  \/ \E r \in Req : CreateOrderCount(r)
  \/ \E r \in Req : CreateOrderSave(r)
  \/ \E r \in Req : CreateOrderReserve(r)
  \/ \E r \in Req : CreateOrderClear(r)
  \/ \E r \in Req, ok \in BOOLEAN : CreateOrderPay(r, ok)
  \/ \E r \in Req, o \in 1..MaxReq, who \in Users \cup {Admin} :
       CancelOrderStart(r, o, who)
  \/ \E r \in Req : CancelOrderRelease(r)
  \/ \E r \in Req : CancelOrderSave(r)
  \/ \E r \in Req, o \in 1..MaxReq, st \in RouteStatuses :
       \E controller \in Controllers : UpdateOrderStatusStart(r, o, st, controller)
  \/ \E r \in Req : UpdateOrderStatusSave(r)
  \/ \E r \in Req, o \in 1..MaxReq : AdminRefundStart(r, o)
  \/ \E r \in Req : AdminRefundSave(r)
  \/ \E r \in Req, o \in 1..MaxReq, e \in WebhookEvents : WebhookStart(r, o, e)
  \/ \E r \in Req : WebhookSave(r)

Spec == Init /\ [][Next]_vars

(* ------------------------ one checkout, on its own ---------------------- *)
\* applyCoupon: the cart is read and the coupon is evaluated on its total;
\* nothing is stored
ApplyCoupon(r, u, couponCode) ==
  /\ CanStart(r)
  /\ req' = [req EXCEPT ![r] =
       IF ~carts[u].exists
         THEN [IdleReq EXCEPT !.op = "applyCoupon", !.pc = "done", !.user = u,
                 !.couponCode = couponCode, !.result = "CartNotFound"]
         ELSE [IdleReq EXCEPT !.op = "applyCoupon", !.pc = "done", !.user = u,
                 !.couponCode = couponCode, !.subtotal = carts[u].totalAmount,
                 !.discount =
                   applyCouponResult(couponCode, carts[u].totalAmount).discount,
                 !.result =
                   applyCouponResult(couponCode, carts[u].totalAmount).result]]
  /\ UNCHANGED <<lockVars, auxVars, carts, stock, orders, origStock, delta, writers>>

\* carts of one line whose quantity the stock no longer covers
LargeCarts ==
  {<<Line(p, NoVariant, q)>> : p \in Products, q \in (MaxLineQty + 1)..MaxCouponQty}

\* no request is being served or was served
NoRequest == \A r \in Req : req[r].pc = "idle"

\* a user without a cart, with an empty cart or with a cart of one or two
\* lines; products that are missing, inactive or active
InitCheckout ==
  /\ now = 0
  /\ lock = [k \in Keys |-> NoLock]
  /\ creq = [r \in CReq |-> IdleCartReq]
  /\ carts \in [Users -> {NoCart, CartDoc(<<>>)}
                          \cup {CartDoc(items) : items \in CheckoutCarts \cup LargeCarts}]
  /\ stock \in [Products -> 1..MaxStock]
  /\ origStock = stock
  /\ delta = [p \in Products |-> 0]
  /\ writers = [p \in Products |-> {}]
  /\ orders = <<>>
  /\ req = [r \in Req |-> IdleReq]
  /\ products \in [Products -> {"missing", "inactive", "active"}]
  /\ lastCall = NoCall

NextCheckout ==
  \/ \E r \in Req, u \in Users, m \in {"stripe", "cash_on_delivery"},
        sm \in ShippingMethods, code \in CouponCodes :
       NoRequest /\ CreateOrderStart(r, u, m, sm, code)
  \/ \E r \in Req, u \in Users, code \in CouponCodes :
       NoRequest /\ ApplyCoupon(r, u, code)
  \/ \E r \in Req : CreateOrderValidate(r)
  \/ \E r \in Req : CreateOrderCount(r)
  \/ \E r \in Req : CreateOrderSave(r)
  \/ \E r \in Req : CreateOrderReserve(r)
  \/ \E r \in Req : CreateOrderClear(r)
  \/ \E r \in Req, ok \in BOOLEAN : CreateOrderPay(r, ok)

SpecCheckout == InitCheckout /\ [][NextCheckout]_vars

(* ------------------------- the life of an order ------------------------- *)
\* the response was sent: the slot serves the next request
Retire(r) ==
  /\ req[r].pc = "done"
  /\ req' = [req EXCEPT ![r] = IdleReq]
  /\ UNCHANGED <<lockVars, auxVars, carts, stock, orders, origStock, delta, writers>>

\* bound: the order's history has room for one more entry
HistoryRoom(o) ==
  o \in 1..Len(orders) /\ Len(orders[o].statusHistory) < MaxHistory

\* bound: one more order may be created
OrderRoom ==
  Len(orders) + Cardinality({r \in Req : req[r].op = "createOrder"
                                          /\ req[r].pc \notin {"idle", "done"}})
    < MaxLifeOrders

\* one user whose cart holds one line of product 1; the life of an order is
\* followed through the handlers of the order controller and the events of
\* its own payment intent
InitLife ==
  /\ now = 0
  /\ lock = [k \in Keys |-> NoLock]
  /\ creq = [r \in CReq |-> IdleCartReq]
  /\ carts = [u \in Users |-> CartDoc(<<Line(1, NoVariant, 1)>>)]
  /\ stock = [p \in Products |-> MaxStock]
  /\ origStock = stock
  /\ delta = [p \in Products |-> 0]
  /\ writers = [p \in Products |-> {}]
  /\ orders = <<>>
  /\ req = [r \in Req |-> IdleReq]
  /\ products = [p \in Products |-> "active"]
  /\ lastCall = NoCall

NextLife ==
  \/ \E r \in Req, u \in Users, m \in {"stripe", "cash_on_delivery"} :
       OrderRoom /\ CreateOrderStart(r, u, m, "standard", "")
  \/ \E r \in Req : CreateOrderValidate(r)
  \/ \E r \in Req : CreateOrderCount(r)
  \/ \E r \in Req : CreateOrderSave(r)
  \/ \E r \in Req : CreateOrderReserve(r)
  \/ \E r \in Req : CreateOrderClear(r)
  \/ \E r \in Req, ok \in BOOLEAN : CreateOrderPay(r, ok)
  \/ \E r \in Req, o \in 1..MaxLifeOrders, who \in Users \cup {Admin} :
       /\ o \in 1..Len(orders)
       /\ HistoryRoom(o) \/ ~canBeCancelled(orders[o].status)
       /\ CancelOrderStart(r, o, who)
  \/ \E r \in Req : CancelOrderRelease(r)
  \/ \E r \in Req : CancelOrderSave(r)
  \/ \E r \in Req, o \in 1..MaxLifeOrders, st \in RouteStatuses :
       HistoryRoom(o) /\ UpdateOrderStatusStart(r, o, st, "order")
  \/ \E r \in Req : UpdateOrderStatusSave(r)
  \/ \E r \in Req, o \in 1..MaxLifeOrders :
       HistoryRoom(o) /\ AdminRefundStart(r, o)
  \/ \E r \in Req : AdminRefundSave(r)
  \/ \E r \in Req, o \in 1..MaxLifeOrders, who \in Users \cup {Admin} :
       RequestRefundStart(r, o, who)
  \/ \E r \in Req : RequestRefundProcess(r)
  \/ \E r \in Req, o \in 1..MaxLifeOrders, e \in WebhookEvents :
       HistoryRoom(o) /\ IntentMatches(o) /\ WebhookStart(r, o, e)
  \/ \E r \in Req : WebhookSave(r)
  \/ \E r \in Req : Retire(r)

SpecLife == InitLife /\ [][NextLife]_vars

(* ------------------------- claims: the cart lock ------------------------ *)
SameKey(r1, r2) ==
  /\ creq[r1].userId = creq[r2].userId
  /\ creq[r1].productId = creq[r2].productId

\* C1: a request that attempts the acquisition while the key is present and
\* unexpired does not observe "lock acquired": it is answered 409 (cart busy)
\* and the key stays with the request that holds it.
C1_AcquireDeniedWhileKeyPresent ==
  [][\A r \in CReq :
       (creq[r].pc = "acquire" /\ creq'[r].pc # "acquire"
          /\ lock[lockKey(r)].held)
       => /\ creq'[r].pc = "get"
          /\ creq'[r].status = 409
          /\ ~creq'[r].lockAcquired
          /\ lock' = lock]_vars

\* C1 witness: one request is in its mutation holding the key while another
\* request for the same (user, product) has just been answered 409.
C1_Witness ==
  \E r1, r2 \in CReq :
    /\ r1 # r2 /\ SameKey(r1, r2)
    /\ InMutation(r1) /\ creq[r1].lockAcquired
    /\ lock[lockKey(r1)].held /\ lock[lockKey(r1)].owner = r1
    /\ creq[r2].pc = "get" /\ creq[r2].status = 409

\* C2: at most one request is executing a cart mutation for a given
\* (user, product) pair in every reachable state, TTL expiry included.
C2_MutualExclusion ==
  \A r1, r2 \in CReq :
    (r1 # r2 /\ InMutation(r1) /\ InMutation(r2)) => ~SameKey(r1, r2)

\* C3: the release step (get, compare, del) never deletes a lock that is held
\* by a different request, also when the releasing request was denied.
C3_ReleaseOnlyOwnLock ==
  [][\A r \in CReq :
       (creq[r].pc = "del" /\ creq'[r].pc = "idle"
          /\ lock[lockKey(r)].held /\ ~lock'[lockKey(r)].held)
       => (creq[r].lockAcquired /\ lock[lockKey(r)].owner = r)]_vars

(* ------------------------ claims: stock and orders ---------------------- *)
RECURSIVE QtyOf(_, _)
\* the quantity the lines of `items` order of product p
QtyOf(items, p) ==
  IF items = <<>> THEN 0
  ELSE (IF Head(items).product = p THEN Head(items).quantity ELSE 0)
       + QtyOf(Tail(items), p)

RECURSIVE SumOrders(_, _)
\* the quantity of product p over the orders of the set os
SumOrders(os, p) ==
  IF os = {} THEN 0
  ELSE LET o == CHOOSE x \in os : TRUE
       IN QtyOf(orders[o].items, p) + SumOrders(os \ {o}, p)

\* createOrder answered 201 for order o
CreatedOk(o) ==
  \E c \in Req : req[c].op = "createOrder" /\ req[c].order = o
                   /\ req[c].pc = "done" /\ req[c].result = "ok"

Quiescent == \A r \in Req : req[r].pc \in {"idle", "done"}

\* C4: inventory is never oversold: for every product the quantities of the
\* orders that were created successfully and are not cancelled never exceed
\* the product's original stock.
C4_NeverOversold ==
  \A p \in Products :
    SumOrders({o \in 1..Len(orders) :
                 CreatedOk(o) /\ orders[o].status # "cancelled"}, p)
      <= origStock[p]

\* C5: the persisted stock of every product is >= 0 in every reachable state.
C5_StockNeverNegative == \A p \in Products : stock[p] >= 0

\* C5 witness: a product was reserved down to zero and a reservation was
\* refused for lack of stock.
C5_Witness ==
  /\ \E p \in Products : stock[p] = 0 /\ delta[p] < 0
  /\ \E r \in Req : req[r].pc = "done" /\ req[r].result = "InsufficientStock"

\* C6: stock conservation: with no operation in flight, the stock of every
\* product equals its original stock minus the quantities of the orders
\* whose status is not 'cancelled'.
C6_StockConservation ==
  Quiescent =>
    \A p \in Products :
      stock[p] = origStock[p]
        - SumOrders({o \in 1..Len(orders) : orders[o].status # "cancelled"}, p)

\* C7: reserveStock and releaseStock lose no update: the stock of a product
\* equals its initial stock minus the quantities of the successful reserve
\* calls plus those of the successful release calls.
C7_NoLostStockUpdate ==
  \A p \in Products : stock[p] = origStock[p] + delta[p]

\* C8: round trip: a successful createOrder followed by a successful
\* cancelOrder of that order, no other request having written the stock of a
\* product of the order, leaves that stock at its value before createOrder.
C8_CreateCancelRoundTrip ==
  \A c, k \in Req :
    ( /\ req[c].op = "createOrder" /\ req[c].pc = "done"
      /\ req[c].result = "ok"
      /\ req[k].op = "cancelOrder" /\ req[k].pc = "done"
      /\ req[k].result = "ok" /\ req[k].order = req[c].order
      /\ req[k].after )
    => \A p \in Products :
         (QtyOf(orders[req[c].order].items, p) > 0 /\ writers[p] \subseteq {c, k})
         => stock[p] = origStock[p]

\* C8 witness: an order of a two-line cart was created and then cancelled,
\* both calls succeeding and both having written the stock.
C8_Witness ==
  \E c, k \in Req :
    /\ req[c].op = "createOrder" /\ req[c].pc = "done" /\ req[c].result = "ok"
    /\ req[k].op = "cancelOrder" /\ req[k].pc = "done" /\ req[k].result = "ok"
    /\ req[k].order = req[c].order /\ req[k].after
    /\ Len(orders[req[c].order].items) = 2
    /\ orders[req[c].order].status = "cancelled"
    /\ \E p \in Products : writers[p] = {c, k}

\* C9: when createOrder fails because a line cannot be reserved, the stock
\* of every product it reserved for earlier lines is back at its value
\* before the call (no other request having written that stock).
C9_ReservationRolledBack ==
  \A c \in Req :
    (req[c].op = "createOrder" /\ req[c].pc = "done"
       /\ req[c].result = "InsufficientStock")
    => \A p \in Products : writers[p] = {c} => stock[p] = origStock[p]

AllowedEdges ==
  {<<"pending", "confirmed">>, <<"confirmed", "processing">>,
   <<"processing", "shipped">>, <<"shipped", "out_for_delivery">>,
   <<"out_for_delivery", "delivered">>, <<"pending", "cancelled">>,
   <<"confirmed", "cancelled">>, <<"processing", "cancelled">>,
   <<"delivered", "refunded">>}

\* C10: every change of an order's status, by any operation, is one of the
\* allowed edges of the state machine.
C10_OnlyAllowedTransitions ==
  [][\A o \in 1..Len(orders) :
       orders'[o].status # orders[o].status
       => <<orders[o].status, orders'[o].status>> \in AllowedEdges]_vars

(* ------------------------- claims: order numbers ------------------------ *)
\* C18: order numbers are unique under concurrency: the count-then-assign
\* steps of concurrent createOrder calls yield different counters, the
\* persisted orders have pairwise distinct orderNumbers, and no createOrder
\* fails because its number is taken.
C18_OrderNumbersUnique ==
  /\ \A r1, r2 \in Req :
       (r1 # r2 /\ req[r1].pc = "insert" /\ req[r2].pc = "insert")
       => req[r1].count # req[r2].count
  /\ \A o1, o2 \in 1..Len(orders) :
       o1 # o2 => orders[o1].orderNumber # orders[o2].orderNumber
  /\ \A r \in Req : req[r].result # "DuplicateOrderNumber"

(* ----------------------- claims: the life of an order ------------------- *)
\* C11: cancelOrder goes on only for an order it read in status pending,
\* confirmed or processing; for an order read in any other status (cancelled
\* included) it fails at once, and the order (status, statusHistory) and the
\* stock of every product are unchanged.
C11_CancelOnlyWhenCancellable ==
  [][/\ \A r \in Req :
          (req[r].op = "cancelOrder" /\ req[r].pc \in {"release", "save"})
          => req[r].loaded \in {"pending", "confirmed", "processing"}
     /\ \A r \in Req :
          (req[r].pc = "idle" /\ req'[r].op = "cancelOrder"
             /\ orders[req'[r].order].status
                  \notin {"pending", "confirmed", "processing"})
          => /\ req'[r].pc = "done"
             /\ req'[r].result \in {"InvalidTransition", "Forbidden"}
             /\ orders' = orders
             /\ stock' = stock]_vars

\* C11 witness: the cancellation of an order that is already cancelled, asked
\* by its owner, was refused.
C11_Witness ==
  \E r \in Req :
    /\ req[r].op = "cancelOrder" /\ req[r].pc = "done"
    /\ req[r].result = "InvalidTransition"
    /\ orders[req[r].order].status = "cancelled"
    /\ orders[req[r].order].user = req[r].user

\* cancelOrder request r has run its release loop to the end
Released(r) ==
  /\ req[r].op = "cancelOrder"
  /\ req[r].pc = "save" \/ (req[r].pc = "done" /\ req[r].result = "ok")

\* C12: the reserved stock of an order is released at most once: two
\* concurrent cancel requests never both pass the eligibility check and both
\* add the line quantities back.
C12_ReleasedAtMostOnce ==
  \A r1, r2 \in Req :
    (r1 # r2 /\ Released(r1) /\ Released(r2)) => req[r1].order # req[r2].order

\* C13: whatever the operation, an order's status becomes 'refunded' only
\* from a state where status is 'delivered' and payment.status 'succeeded'.
C13_RefundedOnlyFromDeliveredPaid ==
  [][\A o \in 1..Len(orders) :
       (orders[o].status # "refunded" /\ orders'[o].status = "refunded")
       => canBeRefunded(orders[o].status, orders[o].payStatus)]_vars

\* C14: a requestRefund that found its order delivered and paid ends with
\* status 'refunded', payment.status 'refunded', refundAmount and
\* refundReason recorded, exactly one new statusHistory entry 'refunded',
\* and every stock unchanged.
C14_RequestRefundEffect ==
  [][\A r \in Req :
       (req[r].op = "requestRefund" /\ req[r].pc = "refund"
          /\ req'[r].pc = "done")
       => LET old == orders[req[r].order]
              new == orders'[req[r].order]
          IN /\ req'[r].result = "ok"
             /\ new.status = "refunded"
             /\ new.payStatus = "refunded"
             /\ new.refund
             /\ new.statusHistory
                  = Append(SubSeq(old.statusHistory, 1, req[r].hlen), "refunded")
             /\ stock' = stock]_vars

\* C15: when a 'payment failed' event has been handled for an order,
\* payment.status is 'failed', the status is 'cancelled', and the stock of
\* every product of the order has grown by the quantities of its lines.
C15_PaymentFailedReleasesStock ==
  [][\A r \in Req :
       (req[r].op = "payment_intent.payment_failed" /\ req[r].pc = "save"
          /\ req'[r].pc = "done")
       => /\ orders'[req[r].order].payStatus = "failed"
          /\ orders'[req[r].order].status = "cancelled"
          /\ \A p \in Products :
               stock'[p] = stock[p] + QtyOf(orders[req[r].order].items, p)]_vars

\* C16: 'cancelled' and 'refunded' are final: no operation changes the
\* status of an order that is cancelled or refunded.
C16_TerminalStatusesFinal ==
  [][\A o \in 1..Len(orders) :
       orders[o].status \in {"cancelled", "refunded"}
       => orders'[o].status = orders[o].status]_vars

\* the status a transition request is about to save
Target(c) == IF c.op = "cancelOrder" THEN "cancelled" ELSE c.arg

\* C17: transitions are linearizable per order: a transition request does
\* not succeed when a concurrent request (one that saved between this
\* request's read of the order and its save) succeeded with a different
\* target status.
C17_TransitionsLinearizable ==
  [][\A r \in Req :
       (req[r].pc = "save" /\ req'[r].pc = "done" /\ req'[r].result = "ok")
       => LET h == orders[req[r].order].statusHistory
          IN \A i \in (req[r].hlen + 1)..Len(h) : h[i] = Target(req[r])]_vars

(* --------------------- claims: cart changes and the lock ---------------- *)
\* the lines of product p in a cart
LinesOf(items, p) == SelectSeq(items, LAMBDA item : item.product = p)

\* C20: every change of a user's cart lines for a product is performed by a
\* request that holds the lock of that (user, product) while it writes: it
\* has acquired the key of (user, product) and has not yet run its release
\* (whether the key has expired meanwhile is the subject of C2).
C20_CartChangedOnlyUnderLock ==
  [][\A u \in Users, p \in Products :
       LinesOf(carts'[u].items, p) # LinesOf(carts[u].items, p)
       => \E r \in CReq :
            /\ creq[r].pc \in {"mutate", "write"} /\ creq'[r].pc # creq[r].pc
            /\ creq[r].userId = u /\ creq[r].productId = p
            /\ creq[r].lockAcquired]_vars

(* --------------------------- claims: cart totals ------------------------ *)
RECURSIVE SumOver(_, _)
\* the sum of f[i] over the indices i of S
SumOver(f, S) ==
  IF S = {} THEN 0
  ELSE LET i == CHOOSE x \in S : TRUE IN f[i] + SumOver(f, S \ {i})

\* C19: after every addItem, updateItem, removeItem and clearCart, in any
\* sequence, the persisted cart's totalItems is the sum of its line
\* quantities and its totalAmount the sum of quantity times price.
C19_CartTotals ==
  \A u \in Users :
    carts[u].exists =>
      LET items == carts[u].items
          I == DOMAIN items
      IN /\ carts[u].totalItems = SumOver([i \in I |-> items[i].quantity], I)
         /\ carts[u].totalAmount
              = SumOver([i \in I |-> items[i].quantity * items[i].price], I)

\* C19 witness: a cart of two lines, one of quantity 2, one whose price was
\* changed by a later addItem.
C19_Witness ==
  \E u \in Users :
    /\ Len(carts[u].items) = 2
    /\ \E i \in 1..2 : carts[u].items[i].quantity = 2
    /\ \E i \in 1..2 :
         carts[u].items[i].price # ProductPrice(carts[u].items[i].product)
    /\ carts[u].totalItems = 3

(* --------------------------- claims: cart methods ----------------------- *)
\* the indices of the lines whose key is exactly (p, v)
KeyLines(items, p, v) ==
  {i \in DOMAIN items : items[i].product = p /\ items[i].variant = v}

\* the lines without line i
Without(items, i) == SubSeq(items, 1, i - 1) \o SubSeq(items, i + 1, Len(items))

\* C21: addItem(product, qty, price, variant) with qty >= 1: a
\* line whose key is exactly (product, variant) gets qty added and its price
\* set; without such a line a new line is appended; all other lines, those
\* of the same product with another variant included, are unchanged.
C21_AddItemByKey ==
  (lastCall.op = "addItem" /\ lastCall.quantity >= 1) =>
    LET c == lastCall
        items == carts[c.user].items
        K == KeyLines(c.before, c.product, c.variant)
    IN IF K # {}
         THEN \E i \in K :
                items = [c.before EXCEPT ![i].quantity = @ + c.quantity,
                                         ![i].price = c.price]
         ELSE items = Append(c.before,
                             LineAt(c.product, c.variant, c.quantity, c.price))

\* C22: updateItem(product, qty, variant): when a line matches (its product
\* is the product and, a variant being given, its variant is the variant),
\* qty <= 0 removes that line and qty > 0 sets its quantity to qty; when no
\* line matches the call fails and the cart's lines and totals are unchanged.
C22_UpdateItemSetsQuantity ==
  lastCall.op = "updateItem" =>
    LET c == lastCall
        doc == carts[c.user]
        M == {i \in DOMAIN c.before :
                /\ c.before[i].product = c.product
                /\ c.variant = NoVariant \/ c.before[i].variant = c.variant}
    IN IF M = {}
         THEN /\ c.error
              /\ doc.items = c.before
              /\ doc.totalItems
                   = SumOver([i \in DOMAIN c.before |-> c.before[i].quantity],
                             DOMAIN c.before)
              /\ doc.totalAmount
                   = SumOver([i \in DOMAIN c.before |->
                                c.before[i].quantity * c.before[i].price],
                             DOMAIN c.before)
         ELSE /\ ~c.error
              /\ \E i \in M :
                   IF c.quantity <= 0
                     THEN doc.items = Without(c.before, i)
                     ELSE doc.items = [c.before EXCEPT ![i].quantity = c.quantity]

\* C22 witness: a line of quantity 2 was set to quantity 1, and another line
\* stayed.
C22_Witness ==
  /\ lastCall.op = "updateItem" /\ ~lastCall.error /\ lastCall.quantity = 1
  /\ Len(lastCall.before) = 2
  /\ \E i \in 1..2 : /\ lastCall.before[i].quantity = 2
                     /\ carts[lastCall.user].items[i].quantity = 1

\* C23: removeItem is idempotent: a second removeItem(product, variant)
\* leaves the lines and totals the first one produced, and a removeItem that
\* no line matches succeeds and leaves lines and totals unchanged.
C23_RemoveItemIdempotent ==
  lastCall.op = "removeItem" =>
    LET c == lastCall
        doc == carts[c.user]
    IN /\ ~c.error
       /\ CartDoc(removeItem(doc.items, c.product, c.variant)) = doc
       /\ (\A i \in DOMAIN c.before :
             ~(/\ c.before[i].product = c.product
               /\ c.variant = NoVariant \/ c.before[i].variant = c.variant))
          => (doc.items = c.before /\ doc = CartDoc(c.before))

\* C23 witness: a removeItem without variant removed two lines of a product
\* and left a line of another product.
C23_Witness ==
  /\ lastCall.op = "removeItem"
  /\ Len(lastCall.before) = 3
  /\ Len(carts[lastCall.user].items) = 1

LineOk(item) ==
  products[item.product] = "active" /\ stock[item.product] >= item.quantity

\* what validateItems is said to report for a line that is not in order
ReportOf(item) ==
  IF products[item.product] = "missing" THEN "notFound"
  ELSE IF products[item.product] = "inactive" THEN "unavailable"
  ELSE "insufficient"

\* the reports of the lines of `items` that are not in order, in line order
RECURSIVE Reports(_)
Reports(items) ==
  IF items = <<>> THEN <<>>
  ELSE (IF LineOk(Head(items)) THEN <<>>
        ELSE <<[kind |-> ReportOf(Head(items)), product |-> Head(items).product]>>)
       \o Reports(Tail(items))

\* C25: validateItems returns an empty list exactly when every cart line's
\* product exists, is active and has stock >= the line quantity, returns its
\* messages in cart-line order otherwise, and no step of it changes the cart,
\* a product's stock or a lock.
C25_ValidateItems ==
  [][\A r \in Req :
       (req[r].op = "createOrder" /\ req[r].pc = "validate")
       => /\ carts' = carts /\ stock' = stock /\ lock' = lock
          /\ req'[r].pc # "validate"
             => /\ req'[r].pc = "save"
                  <=> \A i \in DOMAIN req[r].items : LineOk(req[r].items[i])
                /\ req'[r].errors = Reports(req[r].items)]_vars

\* C25 witness: validateItems returned two messages, the first for the first
\* line and the second for the second line of the cart.
C25_Witness ==
  \E r \in Req :
    /\ req[r].op = "createOrder" /\ req[r].result = "ValidationFailed"
    /\ Len(req[r].errors) = 2
    /\ Len(carts[req[r].user].items) = 2
    /\ \A i \in 1..2 : req[r].errors[i].product = carts[req[r].user].items[i].product
    /\ req[r].errors[1].kind # req[r].errors[2].kind

\* the results of a createOrder that found no cart to order from
Refusals == {"EmptyCart", "ValidationFailed"}

\* C26: createOrder called with an empty or missing cart fails with
\* EmptyCart, and called with a cart of which a line is not in order fails
\* with ValidationFailed; a call that ended in one of the two has persisted
\* no order and changed no stock, and none of its steps changed the cart.
C26_RefusedOrderLeavesNoTrace ==
  /\ [](\A r \in Req :
          (req[r].op = "createOrder" /\ req[r].result \in Refusals)
          => orders = <<>> /\ stock = origStock)
  /\ [][\A r \in Req :
          /\ (req[r].pc = "idle" /\ req'[r].op = "createOrder")
             => /\ req'[r].result = "EmptyCart"
                  <=> (~carts[req'[r].user].exists
                         \/ carts[req'[r].user].items = <<>>)
                /\ carts' = carts
          /\ (req[r].op = "createOrder" /\ req[r].pc = "validate")
             => /\ carts' = carts
                /\ (req'[r].pc # "validate"
                      /\ \E i \in DOMAIN req[r].items : ~LineOk(req[r].items[i]))
                   => req'[r].pc = "done" /\ req'[r].result = "ValidationFailed"]_vars

\* C26 witness: a createOrder was refused for a line of its cart; the cart
\* still has its lines, there is no order and the stock is what it was.
C26_Witness ==
  \E r \in Req :
    /\ req[r].op = "createOrder" /\ req[r].pc = "done"
    /\ req[r].result = "ValidationFailed"
    /\ Len(carts[req[r].user].items) = 2
    /\ orders = <<>> /\ stock = origStock


\* a createOrder call that returned the created order
Succeeded(r) ==
  req[r].op = "createOrder" /\ req[r].pc = "done" /\ req[r].result = "ok"

\* C27: a createOrder that runs alone and succeeds: the order it saves has
\* one line per cart line with the same product, quantity and price; when it
\* has returned, the order has status 'pending' and a statusHistory of the
\* one entry 'pending', the user's cart exists with no lines and zero totals,
\* and the stock of each product is its initial stock less the quantity
\* ordered of it.
C27_SuccessfulOrder ==
  /\ [][\A r \in Req :
          (req[r].op = "createOrder" /\ req[r].pc = "insert"
             /\ req'[r].pc = "reserve")
          => LET cart == carts[req[r].user].items
                 lines == orders'[req'[r].order].items
             IN /\ Len(lines) = Len(cart)
                /\ \A i \in DOMAIN cart :
                     /\ lines[i].product = cart[i].product
                     /\ lines[i].quantity = cart[i].quantity
                     /\ lines[i].price = cart[i].price]_vars
  /\ [](\A r \in Req :
          Succeeded(r)
          => /\ orders[req[r].order].status = "pending"
             /\ orders[req[r].order].statusHistory = <<"pending">>
             /\ carts[req[r].user].exists
             /\ carts[req[r].user].items = <<>>
             /\ carts[req[r].user].totalItems = 0
             /\ carts[req[r].user].totalAmount = 0
             /\ \A p \in Products :
                  stock[p] = origStock[p] - QtyOf(orders[req[r].order].items, p))

\* C27 witness: an order of two lines of different products was created, the
\* cart is empty and the stock of both products has gone down.
C27_Witness ==
  \E r \in Req :
    /\ Succeeded(r)
    /\ Len(orders[req[r].order].items) = 2
    /\ carts[req[r].user].items = <<>>
    /\ \A p \in Products : stock[p] < origStock[p]

\* C28: for every persisted order, pricing.total is pricing.subtotal +
\* pricing.shipping + pricing.tax - pricing.discount and is not negative
\* (amounts in cents).
C28_TotalIsSumAndNotNegative ==
  \A o \in 1..Len(orders) :
    /\ orders[o].pricing.total
         = orders[o].pricing.subtotal + orders[o].pricing.shipping
             + orders[o].pricing.tax - orders[o].pricing.discount
    /\ orders[o].pricing.total >= 0

\* C28 witness: an order was persisted whose discount is its whole subtotal.
C28_Witness ==
  \E o \in 1..Len(orders) :
    /\ orders[o].pricing.discount = orders[o].pricing.subtotal
    /\ orders[o].pricing.discount > 0
    /\ orders[o].pricing.total = orders[o].pricing.shipping + orders[o].pricing.tax

C30_ShippingFromTable ==
  \A o \in 1..Len(orders) :
    orders[o].pricing.shipping
      = CASE orders[o].shippingMethod = "standard" -> 599
          [] orders[o].shippingMethod = "express" -> 1299
          [] orders[o].shippingMethod = "overnight" -> 2499
          [] orders[o].shippingMethod = "pickup" -> 0


(* ------------------------------ claims: coupons ------------------------- *)
\* the coupon evaluator refuses the code for this subtotal: the code is
\* unknown or the subtotal is below the coupon's minimum amount
EvaluatorError(couponCode, subtotal) ==
  /\ couponCode # ""
  /\ applyCouponResult(couponCode, subtotal).result # "ok"

\* C31: when createOrder is given a coupon code for which the coupon
\* evaluator returns an error (unknown code, or subtotal below the coupon's
\* minimum amount), the order is still created and its pricing.discount is 0.
C31_RefusedCouponGivesNoDiscount ==
  [][\A r \in Req :
       (req[r].op = "createOrder"
          /\ EvaluatorError(req[r].couponCode, req[r].subtotal))
       => /\ req[r].pc = "save"
             => req'[r].pc = "insert" /\ req'[r].discount = 0
          /\ (req[r].pc = "insert" /\ req'[r].pc = "reserve")
             => orders'[req'[r].order].pricing.discount = 0]_vars

\* the smaller of two amounts
Least(a, b) == IF a <= b THEN a ELSE b

\* C32: the discount computed for the fixed-type coupon is min(value,
\* subtotal), value being 20.00, in the cart coupon path (applyCoupon) and in
\* the order pricing path (createOrder).
C32_FixedDiscountCapped ==
  [][\A r \in Req :
       /\ (req[r].pc = "idle" /\ req'[r].op = "applyCoupon"
             /\ req'[r].result = "ok"
             /\ toUpperCase(req'[r].couponCode) = "FLAT20")
          => req'[r].discount = Least(2000, req'[r].subtotal)
       /\ (req[r].op = "createOrder" /\ req[r].pc = "save"
             /\ toUpperCase(req[r].couponCode) = "FLAT20")
          => req'[r].discount = Least(2000, req[r].subtotal)]_vars


(* --------------------------- claims: status events ---------------------- *)
\* C33: every status transition of an order is followed by the emission of
\* one status-change event carrying the new status: the request whose save
\* changes the status of an order, and the createOrder that returns the
\* order it created, have emitted that status when they return.
C33_StatusChangeEmitted ==
  [][\A r \in Req :
       /\ (req[r].op = "createOrder" /\ req[r].pc # "done"
             /\ req'[r].pc = "done" /\ req'[r].result = "ok")
          => req'[r].emitted = "pending"
       /\ \A o \in 1..Len(orders) :
            (req[r].pc = "save" /\ req[r].order = o /\ req'[r].pc = "done"
               /\ orders'[o].status # orders[o].status)
            => req'[r].emitted = orders'[o].status]_vars


\* C34: every persisted order has a non-empty statusHistory whose last entry
\* carries order.status; a step that changes the status of an order appends
\* exactly one entry, and no step removes or rewrites an earlier entry, also
\* when two operations on the same order save concurrently.
C34_StatusIsLastHistoryEntry ==
  /\ [](\A o \in 1..Len(orders) :
          /\ Len(orders[o].statusHistory) >= 1
          /\ orders[o].status
               = orders[o].statusHistory[Len(orders[o].statusHistory)])
  /\ [][\A o \in 1..Len(orders) :
          /\ Len(orders'[o].statusHistory) >= Len(orders[o].statusHistory)
          /\ SubSeq(orders'[o].statusHistory, 1, Len(orders[o].statusHistory))
               = orders[o].statusHistory
          /\ orders'[o].status # orders[o].status
             => Len(orders'[o].statusHistory)
                  = Len(orders[o].statusHistory) + 1]_vars


(* ----------------------- claims: the cart lock, again ------------------- *)
\* the request was answered 'Cart is being updated, please try again'
Denied(c) == c.status = 409

\* C35: a request whose lock acquisition is denied returns the 'cart busy'
\* failure without retrying, and leaves the cart's lines and totals and the
\* lock key, its value and its holder, exactly as they were: a denied
\* acquisition is answered 409, and no step the request takes from the
\* denial to its return acquires again or changes a cart or a lock.
C35_DeniedRequestChangesNothing ==
  [][\A r \in CReq :
       /\ (creq[r].pc = "acquire" /\ creq'[r] # creq[r]
             /\ ~SetNXSucceeds(lockKey(r)))
          => Denied(creq'[r])
       /\ (creq'[r] # creq[r] /\ (Denied(creq[r]) \/ Denied(creq'[r])))
          => /\ creq'[r].pc \in {"get", "del", "idle"}
             /\ carts' = carts
             /\ lock' = lock]_vars


\* C36: no lock is held forever: a lock key that is present is eventually
\* absent again, the handlers being run to their end.
C36_LockEventuallyAbsent ==
  \A k \in Keys : lock[k].held ~> ~lock[k].held

\* C36 witness: an addToCart has stored its line and returned, and the key it
\* acquired is absent again.
C36_Witness ==
  /\ \A k \in Keys : ~lock[k].held
  /\ \A r \in CReq : creq[r].pc = "idle"
  /\ \E u \in Users : Len(carts[u].items) >= 1


C38_PaymentSetupFailedLeavesNoTrace ==
  \A r \in Req :
    (req[r].op = "createOrder" /\ req[r].pc = "done"
       /\ req[r].result = "PaymentSetupFailed")
    => /\ orders = <<>>
       /\ carts[req[r].user].items # <<>>
       /\ stock = origStock


\* C39: a failure while handling a payment event (no order matches the
\* event's payment intent, or the handler throws after its save) is surfaced
\* to the caller of handleWebhook as a failure: a handling that met a failure
\* does not return as successfully received.
C39_WebhookFailureSurfaced ==
  \A r \in Req :
    (req[r].op \in WebhookEvents /\ req[r].pc = "done" /\ req[r].errors # <<>>)
    => req[r].result # "ok"

\* the order is as a handling of `event` leaves it
Handled(order, event) ==
  /\ order.payStatus = WebhookPayStatus(event)
  /\ order.status = WebhookStatus(event)
  /\ order.statusHistory[Len(order.statusHistory)] = WebhookStatus(event)

\* C40: payment-event handling is idempotent under redelivery: handling an
\* event for an order that is as a first handling of that event left it
\* (nothing else running on the order) leaves the order's status,
\* payment.status and statusHistory as they are.
C40_WebhookIdempotent ==
  [][\A r \in Req :
       (req[r].op \in WebhookEvents /\ req[r].pc = "save"
          /\ req'[r].pc = "done"
          /\ Handled(orders[req[r].order], req[r].op)
          /\ req[r].hlen = Len(orders[req[r].order].statusHistory))
       => /\ orders'[req[r].order].status = orders[req[r].order].status
          /\ orders'[req[r].order].payStatus = orders[req[r].order].payStatus
          /\ orders'[req[r].order].statusHistory
               = orders[req[r].order].statusHistory]_vars

====
